---- MODULE Spec2Model ----
(***************************************************************************)
(* Stock Market Directory API (projects/stockmarketdirectory/api/app.py).  *)
(*                                                                         *)
(* One request is modelled from the moment the router hands it to a        *)
(* handler (pc = "received") to the moment the handler has returned its    *)
(* response (pc = "responded").  The provider (yfinance) is the            *)
(* environment: what ticker.info and ticker.history() do during the        *)
(* request is drawn in Init and read by the handler.                       *)
(*                                                                         *)
(* Numbers: prices are integers in thousandths of a currency unit (1004    *)
(* is 1.004), percentages in thousandths of a percent.  round(x, 2) is     *)
(* rounding to a multiple of 10, ties to even.                             *)
(* Strings a handler measures or uppercases (symbol, query, longName) are  *)
(* sequences of one-character strings; a message f'... {symbol}' is the    *)
(* sequence <<prefix>> \o symbol.  Other strings are atoms.                *)
(* A JSON / Python value that may be None is a record [st, v] with st in   *)
(* {"val", "null"}; a dict key that is missing has st = "absent".          *)
(***************************************************************************)
EXTENDS Integers, Sequences, FiniteSets, TLC

VARIABLES route, pc, symbol, args, info, hist, idx, now, response, calls, log

vars == <<route, pc, symbol, args, info, hist, idx, now, response, calls, log>>

(***************************************************************************)
(* Bounds of the model                                                     *)
(***************************************************************************)
MaxSymLen == 2      \* longest <symbol> path parameter
MaxQueryLen == 6    \* longest <query> path parameter
MaxKeys == 2        \* most keys the provider supplies in one metadata map
MaxRows == 3        \* longest history series of a chart request

Alphabet == {"a", "B"}

Abs(x) == IF x < 0 THEN -x ELSE x

(***************************************************************************)
(* Python values                                                           *)
(***************************************************************************)
Val(v) == [st |-> "val", v |-> v]
Null(d) == [st |-> "null", v |-> d]
Absent(d) == [st |-> "absent", v |-> d]

\* str.upper(), character by character
UpperChar(c) == IF c = "a" THEN "A" ELSE c
Upper(s) == [i \in 1..Len(s) |-> UpperChar(s[i])]

\* the integer nearest n / d, ties to the even one (d # 0)
RoundDiv(n, d) ==
    LET dd == Abs(d)
        nn == IF d < 0 THEN -n ELSE n
        q == nn \div dd
        r == nn % dd
    IN  IF 2 * r < dd THEN q
        ELSE IF 2 * r > dd THEN q + 1
        ELSE IF q % 2 = 0 THEN q ELSE q + 1

\* round(x, 2) of a value in thousandths
Round2(x) == 10 * RoundDiv(x, 10)

\* round((change / previous_close) * 100, 2), in thousandths of a percent
PercentRound2(change, previous_close) == 10 * RoundDiv(change * 10000, previous_close)

\* dict.get(key, default): the default only when the key is missing
Get(d, key, default) == IF d[key].st = "absent" THEN default ELSE d[key]

\* (a test for the key alone, `key in d`, in place of the truth value)
Truthy_KeyPresent(d, key) == d[key].st # "absent"

\* truth value of `d and d.get(key)` for a string-valued key
Truthy(d, key) == d[key].st = "val" /\ d[key].v # <<>>

(***************************************************************************)
(* The provider: metadata maps, history series, failures                   *)
(***************************************************************************)
NumKeys == {"previousClose", "volume", "marketCap", "trailingPE",
            "fiftyTwoWeekHigh", "fiftyTwoWeekLow", "dividendYield"}
AtomKeys == {"currency", "exchange", "marketState"}
Keys == NumKeys \cup AtomKeys \cup {"longName"}

Missing(k) == IF k \in NumKeys THEN Absent(0)
              ELSE IF k \in AtomKeys THEN Absent("") ELSE Absent(<<>>)

\* what the provider may supply under key k
Supplied(k) ==
    CASE k = "previousClose" -> <<Null(0), Val(0), Val(996), Val(2000)>>
      [] k = "longName" -> <<Null(<<>>), Val(<<>>), Val(<<"I", "n", "c">>)>>
      [] k = "volume" -> <<Null(0), Val(5000)>>
      [] k = "marketCap" -> <<Null(0), Val(7000000)>>
      [] k = "trailingPE" -> <<Null(0), Val(31500)>>
      [] k = "fiftyTwoWeekHigh" -> <<Null(0), Val(199000)>>
      [] k = "fiftyTwoWeekLow" -> <<Null(0), Val(124000)>>
      [] k = "dividendYield" -> <<Null(0), Val(5)>>
      [] k = "currency" -> <<Null(""), Val("EUR")>>
      [] k = "exchange" -> <<Null(""), Val("NMS")>>
      [] k = "marketState" -> <<Null(""), Val("REGULAR")>>

Pick(k, i) == Supplied(k)[IF i > Len(Supplied(k)) THEN Len(Supplied(k)) ELSE i]

\* the metadata maps that supply at most MaxKeys keys, all of them in K
MetasOver(K) ==
    UNION { { [k \in Keys |-> IF k \in S THEN Pick(k, c[k]) ELSE Missing(k)] :
                c \in [S -> 1..4] } :
            S \in {T \in SUBSET K : Cardinality(T) <= MaxKeys} }

EmptyMeta == [k \in Keys |-> Missing(k)]

ExcTexts == {"ConnectionError: timed out", "HTTPError 401 crumb=Zx81"}

\* outcome of reading ticker.info: it raises, or returns a metadata map
InfoOutcomes(K, texts) ==
    { [raises |-> TRUE, exc |-> e, meta |-> EmptyMeta] : e \in texts }
    \cup { [raises |-> FALSE, exc |-> "", meta |-> m] : m \in MetasOver(K) }

\* rows of a history frame: the index (its calendar date, and its instant in tenths of
\* a millisecond since the epoch, early dates keeping the numbers small) and the
\* OHLCV columns
RowA == [date |-> <<1970, 1, 2>>, instant |-> 864000009, Open |-> 996,
         High |-> 1015, Low |-> 985, Close |-> 1004, Volume |-> 5000]
RowB == [date |-> <<1970, 1, 3>>, instant |-> 1728000000, Open |-> 1004,
         High |-> 1004, Low |-> 0, Close |-> 0, Volume |-> 0]
Rows == {RowA, RowB}

SeriesUpTo(n) == UNION { [1..k -> Rows] : k \in 0..n }

\* ticker.history(period='1d'): no row, one row, or two
DayFrames == {<<>>, <<RowA>>, <<RowB>>, <<RowA, RowB>>, <<RowB, RowA>>}

\* outcome of ticker.history(...): it raises, or returns a frame (maybe empty)
HistOutcomes(frames, texts) ==
    { [raises |-> TRUE, exc |-> e, rows |-> <<>>] : e \in texts }
    \cup { [raises |-> FALSE, exc |-> "", rows |-> f] : f \in frames }

NoInfo == [raises |-> FALSE, exc |-> "", meta |-> EmptyMeta]
NoHist == [raises |-> FALSE, exc |-> "", rows |-> <<>>]

(***************************************************************************)
(* get_stock_data                                                          *)
(***************************************************************************)
Call(fn, ticker, period, interval) ==
    [fn |-> fn, ticker |-> ticker, period |-> period, interval |-> interval]

InfoCall(sym) == Call("info", Upper(sym), "", "")

LogEntry(prefix, subject, detail) == [msg |-> <<prefix>> \o subject, detail |-> detail]

Result(resp, cs, lg) == [response |-> resp, calls |-> cs, log |-> lg]

ErrorResponse(status, prefix, sym) ==
    [status |-> status, body |-> [error |-> <<prefix>> \o sym]]

\* hist['Close'].iloc[-1]
LastClose(rows) == rows[Len(rows)].Close

\* (a default of 0 in place of the most recent close)
PreviousClose_DefaultZero(meta, rows) == Get(meta, "previousClose", Val(0))

\* info.get('previousClose', hist['Close'].iloc[-1])
PreviousClose(meta, rows) == Get(meta, "previousClose", Val(LastClose(rows)))

\* (the ratio without the factor 100)
ChangePercent_Fraction(change, previous_close) ==
    IF previous_close # 0 THEN 10 * RoundDiv(change * 100, previous_close) ELSE 0

\* (change / previous_close) * 100 if previous_close else 0, then round(.., 2)
ChangePercent(change, previous_close) ==
    IF previous_close # 0 THEN PercentRound2(change, previous_close) ELSE 0

StockFields == {"symbol", "name", "current_price", "previous_close", "change",
                "change_percent", "volume", "market_cap", "pe_ratio", "high_52w",
                "low_52w", "dividend_yield", "currency", "exchange", "market_state",
                "timestamp"}

\* the stock_data dict
StockData(sym, meta, rows, t) ==
    LET current_price == LastClose(rows)
        previous_close == PreviousClose(meta, rows).v
        change == current_price - previous_close
    IN  [f \in StockFields |->
            CASE f = "symbol" -> Val(Upper(sym))
              [] f = "name" -> Get(meta, "longName", Val(Upper(sym)))
              [] f = "current_price" -> Val(Round2(current_price))
              [] f = "previous_close" -> Val(Round2(previous_close))
              [] f = "change" -> Val(Round2(change))
              [] f = "change_percent" -> Val(ChangePercent(change, previous_close))
              [] f = "volume" -> Get(meta, "volume", Val(0))
              [] f = "market_cap" -> Get(meta, "marketCap", Val(0))
              [] f = "pe_ratio" -> Get(meta, "trailingPE", Val(0))
              [] f = "high_52w" -> Get(meta, "fiftyTwoWeekHigh", Val(0))
              [] f = "low_52w" -> Get(meta, "fiftyTwoWeekLow", Val(0))
              [] f = "dividend_yield" -> Get(meta, "dividendYield", Val(0))
              [] f = "currency" -> Get(meta, "currency", Val("USD"))
              [] f = "exchange" -> Get(meta, "exchange", Val("UNKNOWN"))
              [] f = "market_state" -> Get(meta, "marketState", Val("CLOSED"))
              [] f = "timestamp" -> Val(t)]

\* (an except clause that puts str(e) in the response)
StockFailure_Echo(sym, detail, cs) ==
    Result([status |-> 500,
            body |-> [error |-> <<"Failed to fetch data for ">> \o sym \o <<detail>>]],
           cs, <<LogEntry("Error fetching data for ", sym, detail)>>)

\* the except clause of get_stock_data
StockFailure(sym, detail, cs) ==
    Result(ErrorResponse(500, "Failed to fetch data for ", sym), cs,
           <<LogEntry("Error fetching data for ", sym, detail)>>)

\* (the handler without its hist.empty test: iloc[-1] of an empty frame raises)
StockDataRun_NoEmptyTest(sym, inf, hst, t) ==
    LET c1 == <<InfoCall(sym)>>
        c2 == c1 \o <<Call("history", Upper(sym), "1d", "")>>
    IN  IF inf.raises THEN StockFailure(sym, inf.exc, c1)
        ELSE IF hst.raises THEN StockFailure(sym, hst.exc, c2)
        ELSE IF hst.rows = <<>>
            THEN StockFailure(sym, "IndexError: single positional indexer is out-of-bounds", c2)
        ELSE IF PreviousClose(inf.meta, hst.rows).st = "null"
            THEN StockFailure(sym, "TypeError: unsupported operand type(s) for -", c2)
        ELSE Result([status |-> 200, body |-> StockData(sym, inf.meta, hst.rows, t)],
                    c2, <<>>)

\* the whole handler: what it returns, the provider calls it made, what it logged
StockDataRun(sym, inf, hst, t) ==
    LET c1 == <<InfoCall(sym)>>
        c2 == c1 \o <<Call("history", Upper(sym), "1d", "")>>
    IN  IF inf.raises THEN StockFailure(sym, inf.exc, c1)
        ELSE IF hst.raises THEN StockFailure(sym, hst.exc, c2)
        ELSE IF hst.rows = <<>>
            THEN Result(ErrorResponse(404, "No data found for symbol ", sym), c2, <<>>)
        ELSE IF PreviousClose(inf.meta, hst.rows).st = "null"
            THEN StockFailure(sym, "TypeError: unsupported operand type(s) for -", c2)
        ELSE Result([status |-> 200, body |-> StockData(sym, inf.meta, hst.rows, t)],
                    c2, <<>>)

(***************************************************************************)
(* get_stock_chart                                                         *)
(***************************************************************************)
valid_periods == <<"1d", "5d", "1mo", "3mo", "6mo", "1y", "2y", "5y", "10y", "ytd", "max">>

InList(x, list) == \E i \in 1..Len(list) : list[i] = x

\* request.args.get(key, default)
ArgsGet(a, key, default) == IF key \in DOMAIN a THEN a[key] ELSE default

\* (the requested period passed on without validation)
EffectivePeriod_Unvalidated(a) == ArgsGet(a, "period", "1y")

\* the period after validation
EffectivePeriod(a) ==
    LET period == ArgsGet(a, "period", "1y")
    IN  IF ~InList(period, valid_periods) THEN "1y" ELSE period

RequestedInterval(a) == ArgsGet(a, "interval", "1d")

\* one chart_data entry
Bar(row) ==
    [date |-> row.date,
     timestamp |-> row.instant \div 10,
     open |-> Round2(row.Open),
     high |-> Round2(row.High),
     low |-> Round2(row.Low),
     close |-> Round2(row.Close),
     volume |-> row.Volume]

\* (rows with the same index merged, as a dict keyed by date would)
RECURSIVE ChartData_Dedup(_)
ChartData_Dedup(rows) ==
    IF rows = <<>> THEN <<>>
    ELSE LET front == SubSeq(rows, 1, Len(rows) - 1)
             last == rows[Len(rows)]
         IN  IF \E i \in 1..Len(front) : front[i].date = last.date
             THEN ChartData_Dedup(front)
             ELSE Append(ChartData_Dedup(front), Bar(last))

\* the for loop over hist.iterrows()
ChartData(rows) == [i \in 1..Len(rows) |-> Bar(rows[i])]

ChartFailure(sym, detail, cs) ==
    Result(ErrorResponse(500, "Failed to fetch chart data for ", sym), cs,
           <<LogEntry("Error fetching chart data for ", sym, detail)>>)

ChartRun(sym, a, hst, t) ==
    LET period == EffectivePeriod(a)
        interval == RequestedInterval(a)
        cs == <<Call("history", Upper(sym), period, interval)>>
        chart_data == ChartData(hst.rows)
    IN  IF hst.raises THEN ChartFailure(sym, hst.exc, cs)
        ELSE IF hst.rows = <<>>
            THEN Result(ErrorResponse(404, "No chart data found for symbol ", sym), cs, <<>>)
        ELSE Result([status |-> 200,
                     body |-> [symbol |-> Upper(sym), period |-> period,
                               interval |-> interval, data |-> chart_data,
                               count |-> Len(chart_data), timestamp |-> t]],
                    cs, <<>>)

(***************************************************************************)
(* get_market_indices                                                      *)
(***************************************************************************)
indices == << [symbol |-> "^GSPC", name |-> "S&P 500"],
              [symbol |-> "^DJI", name |-> "Dow Jones"],
              [symbol |-> "^IXIC", name |-> "NASDAQ"] >>

IndexSymbols == { indices[i].symbol : i \in 1..Len(indices) }

\* results[symbol] = {...}
IndexEntry(ix, meta, rows, t) ==
    LET current_price == LastClose(rows)
        previous_close == PreviousClose(meta, rows).v
        change == current_price - previous_close
    IN  [name |-> ix.name, symbol |-> ix.symbol,
         current_price |-> Round2(current_price),
         change |-> Round2(change),
         change_percent |-> ChangePercent(change, previous_close),
         timestamp |-> t]

\* the inner except clause: log and continue
IndexSkip(acc, ix, detail, cs) ==
    [results |-> acc.results, calls |-> acc.calls \o cs,
     log |-> Append(acc.log, [msg |-> <<"Error fetching ", ix.symbol>>, detail |-> detail])]

\* one iteration of the loop over indices.items()
IndexStep(acc, ix, out, t) ==
    LET c1 == <<Call("info", ix.symbol, "", "")>>
        c2 == c1 \o <<Call("history", ix.symbol, "1d", "")>>
    IN  IF out.info.raises THEN IndexSkip(acc, ix, out.info.exc, c1)
        ELSE IF out.hist.raises THEN IndexSkip(acc, ix, out.hist.exc, c2)
        ELSE IF out.hist.rows = <<>>
            THEN [results |-> acc.results, calls |-> acc.calls \o c2, log |-> acc.log]
        ELSE IF PreviousClose(out.info.meta, out.hist.rows).st = "null"
            THEN IndexSkip(acc, ix, "TypeError: unsupported operand type(s) for -", c2)
        ELSE [results |-> acc.results @@
                          (ix.symbol :> IndexEntry(ix, out.info.meta, out.hist.rows, t)),
              calls |-> acc.calls \o c2, log |-> acc.log]

RECURSIVE IndexLoop(_, _, _, _)
IndexLoop(acc, i, outs, t) ==
    IF i > Len(indices) THEN acc
    ELSE IndexLoop(IndexStep(acc, indices[i], outs[indices[i].symbol], t), i + 1, outs, t)

IndicesRun(outs, t) ==
    LET done == IndexLoop([results |-> [s \in {} |-> 0], calls |-> <<>>, log |-> <<>>],
                          1, outs, t)
    IN  Result([status |-> 200, body |-> done.results], done.calls, done.log)

(***************************************************************************)
(* search_stocks                                                           *)
(***************************************************************************)
MaxTickerLen == 5

Suggestions(list) == [status |-> 200, body |-> [suggestions |-> list]]

\* the suggestion record appended when the name resolves
Suggestion(query, meta) ==
    [symbol |-> Upper(query),
     name |-> Get(meta, "longName", Val(Upper(query))),
     exchange |-> Get(meta, "exchange", Val("UNKNOWN"))]

\* (the length test made after the fetch instead of before it)
SearchRun_FetchFirst(query, inf) ==
    IF inf.raises
        THEN Result(Suggestions(<<>>), <<InfoCall(query)>>,
                    <<LogEntry("Error searching for ", query, inf.exc)>>)
    ELSE Result(Suggestions(IF Len(query) <= MaxTickerLen /\ Truthy(inf.meta, "longName")
                            THEN <<Suggestion(query, inf.meta)>> ELSE <<>>),
                <<InfoCall(query)>>, <<>>)

SearchRun(query, inf) ==
    IF Len(query) > MaxTickerLen THEN Result(Suggestions(<<>>), <<>>, <<>>)
    ELSE IF inf.raises
        THEN Result(Suggestions(<<>>), <<InfoCall(query)>>,
                    <<LogEntry("Error searching for ", query, inf.exc)>>)
    ELSE Result(Suggestions(IF Truthy(inf.meta, "longName")
                            THEN <<Suggestion(query, inf.meta)>> ELSE <<>>),
                <<InfoCall(query)>>, <<>>)

(***************************************************************************)
(* Requests                                                                *)
(***************************************************************************)
StringsUpTo(n) == UNION { [1..k -> Alphabet] : k \in 1..n }

Symbols == StringsUpTo(MaxSymLen)
Queries == StringsUpTo(MaxQueryLen)

PeriodArgs == { valid_periods[i] : i \in 1..Len(valid_periods) } \cup {"3w", "1Y", ""}
IntervalArgs == {"1d", "1wk", "fortnight"}

\* the query string: each of period and interval given or not
ArgMaps ==
    { [k \in D |-> IF k = "period" THEN p ELSE v] :
        D \in SUBSET {"period", "interval"}, p \in PeriodArgs, v \in IntervalArgs }

NoArgs == [k \in {} |-> ""]
NoOutcome == [info |-> NoInfo, hist |-> NoHist]
NoIdx == [s \in IndexSymbols |-> NoOutcome]
NoResponse == [status |-> 0, body |-> <<>>]

Clock == {"2026-01-07T16:00:00.000001"}

\* what the provider does for one index symbol
IndexOutcomes ==
    { [info |-> i, hist |-> h] :
        i \in InfoOutcomes({"previousClose"}, {"ConnectionError: timed out"}),
        h \in HistOutcomes({<<>>, <<RowA>>, <<RowA, RowB>>},
                           {"ConnectionError: timed out"}) }

Init ==
    /\ pc = "received"
    /\ response = NoResponse
    /\ calls = <<>>
    /\ log = <<>>
    /\ now \in Clock
    /\ \/ /\ route = "stock"
          /\ symbol \in Symbols
          /\ args = NoArgs
          /\ info \in InfoOutcomes(Keys, ExcTexts)
          /\ hist \in HistOutcomes(DayFrames, ExcTexts)
          /\ idx = NoIdx
       \/ /\ route = "chart"
          /\ symbol \in Symbols
          /\ args \in ArgMaps
          /\ info = NoInfo
          /\ hist \in HistOutcomes(SeriesUpTo(MaxRows), ExcTexts)
          /\ idx = NoIdx
       \/ /\ route = "indices"
          /\ symbol = <<>>
          /\ args = NoArgs
          /\ info = NoInfo
          /\ hist = NoHist
          /\ idx \in [IndexSymbols -> IndexOutcomes]
       \/ /\ route = "search"
          /\ symbol \in Queries
          /\ args = NoArgs
          /\ info \in InfoOutcomes({"longName", "exchange"}, ExcTexts)
          /\ hist = NoHist
          /\ idx = NoIdx

Respond(r) ==
    /\ response' = r.response
    /\ calls' = r.calls
    /\ log' = r.log
    /\ pc' = "responded"
    /\ UNCHANGED <<route, symbol, args, info, hist, idx, now>>

get_stock_data ==
    /\ pc = "received"
    /\ route = "stock"
    /\ Respond(StockDataRun(symbol, info, hist, now))

get_stock_chart ==
    /\ pc = "received"
    /\ route = "chart"
    /\ Respond(ChartRun(symbol, args, hist, now))

get_market_indices ==
    /\ pc = "received"
    /\ route = "indices"
    /\ Respond(IndicesRun(idx, now))

search_stocks ==
    /\ pc = "received"
    /\ route = "search"
    /\ Respond(SearchRun(symbol, info))

Next ==
    \/ get_stock_data
    \/ get_stock_chart
    \/ get_market_indices
    \/ search_stocks

Spec == Init /\ [][Next]_vars

(***************************************************************************)
(* Properties                                                              *)
(***************************************************************************)
Responded(r) == pc = "responded" /\ route = r

\* the provider returned a metadata map / a frame
InfoOk(o) == ~o.raises
FrameOk(o) == ~o.raises /\ o.rows # <<>>
FrameEmpty(o) == ~o.raises /\ o.rows = <<>>

\* x is a 2-decimal value within half a hundredth of the exact num / den (den > 0)
RoundingOf(x, num, den) == x % 10 = 0 /\ 2 * Abs(x * den - num) <= 10 * den

\* C1: get_market_indices always answers 200 with a mapping whose key set is exactly
\* the configured symbols whose metadata and history fetches both succeeded with a
\* non-empty history.
C1_KeysAreTheSucceededSymbols ==
    Responded("indices") =>
        /\ response.status = 200
        /\ DOMAIN response.body =
              { s \in IndexSymbols : InfoOk(idx[s].info) /\ FrameOk(idx[s].hist) }

\* C2: when the provider returns a metadata map and an empty history, get_stock_data
\* answers 404 with an error body, and so does get_stock_chart on an empty history;
\* never 200, never 500.
C2_EmptyHistoryIsNotFound ==
    /\ (Responded("stock") /\ InfoOk(info) /\ FrameEmpty(hist)) =>
          response = [status |-> 404,
                      body |-> [error |-> <<"No data found for symbol ">> \o symbol]]
    /\ (Responded("chart") /\ FrameEmpty(hist)) =>
          response = [status |-> 404,
                      body |-> [error |-> <<"No chart data found for symbol ">> \o symbol]]

C2_Witness ==
    /\ Responded("stock")
    /\ InfoOk(info)
    /\ info.meta["previousClose"].st = "null"
    /\ info.meta["longName"].st = "val"
    /\ FrameEmpty(hist)
    /\ response.status = 404

\* C3: when the metadata map has no previousClose key and the history is non-empty,
\* previous_close is the most recent close and change and change_percent are 0, in
\* get_stock_data and in the entry get_market_indices builds for the symbol.
C3_MissingPreviousCloseGivesZeroChange ==
    /\ (Responded("stock") /\ InfoOk(info) /\ FrameOk(hist)
          /\ info.meta["previousClose"].st = "absent") =>
          /\ response.status = 200
          /\ response.body["previous_close"] = response.body["current_price"]
          /\ response.body["change"] = Val(0)
          /\ response.body["change_percent"] = Val(0)
    /\ Responded("indices") =>
          \A s \in IndexSymbols :
              (InfoOk(idx[s].info) /\ FrameOk(idx[s].hist)
                 /\ idx[s].info.meta["previousClose"].st = "absent") =>
                  /\ s \in DOMAIN response.body
                  /\ response.body[s].change = 0
                  /\ response.body[s].change_percent = 0

C3_Witness ==
    /\ Responded("stock")
    /\ InfoOk(info)
    /\ info.meta["previousClose"].st = "absent"
    /\ FrameOk(hist)
    /\ hist.rows[Len(hist.rows)].Close = 1004
    /\ response.status = 200
    /\ response.body["current_price"] = Val(1000)

\* C4 as stated: the fields of every successful snapshot satisfy
\* change = current_price - previous_close, and change_percent is change /
\* previous_close * 100 (to 2 decimals) when previous_close is nonzero, else 0.
C4_FieldsSatisfyTheInvariant ==
    (Responded("stock") /\ response.status = 200) =>
        LET b == response.body
        IN  /\ b["change"].v = b["current_price"].v - b["previous_close"].v
            /\ b["change_percent"].v =
                  IF b["previous_close"].v # 0
                  THEN PercentRound2(b["change"].v, b["previous_close"].v)
                  ELSE 0

\* C4 amended: with cp the most recent close and p the provider's previousClose (cp
\* when the key is missing), the fields current_price, previous_close and change of a
\* successful snapshot are cp, p and cp - p, each rounded to 2 decimals, and
\* change_percent is (cp - p) / p * 100 rounded to 2 decimals when p is nonzero, else
\* 0; a previousClose of 0 with a non-empty history always gives a 200.
C4_FieldsAreRoundingsOfTheInvariant ==
    /\ (Responded("stock") /\ response.status = 200) =>
          LET b == response.body
              cp == hist.rows[Len(hist.rows)].Close
              p == IF info.meta["previousClose"].st = "absent" THEN cp
                   ELSE info.meta["previousClose"].v
          IN  /\ RoundingOf(b["current_price"].v, cp, 1)
              /\ RoundingOf(b["previous_close"].v, p, 1)
              /\ RoundingOf(b["change"].v, cp - p, 1)
              /\ p > 0 => RoundingOf(b["change_percent"].v, (cp - p) * 100000, p)
              /\ p = 0 => b["change_percent"].v = 0
    /\ (Responded("stock") /\ InfoOk(info) /\ FrameOk(hist)
          /\ info.meta["previousClose"] = Val(0)) =>
          response.status = 200

C4_Witness ==
    /\ Responded("stock")
    /\ response.status = 200
    /\ info.meta["previousClose"] = Val(996)
    /\ hist.rows[Len(hist.rows)].Close = 1004
    /\ response.body["change"] = Val(10)
    /\ response.body["change_percent"] = Val(800)

\* C5: the period get_stock_chart passes to the provider's history fetch, and echoes
\* in a 200, is the requested one when it is one of the eleven valid periods and '1y'
\* otherwise (also when no period is given); the interval is passed and echoed as
\* requested ('1d' when none is given); an unrecognized period never changes the
\* outcome, which is decided by the provider's history alone.
C5_PeriodIsCorrectedNotRejected ==
    Responded("chart") =>
        LET valid == {"1d", "5d", "1mo", "3mo", "6mo", "1y", "2y", "5y", "10y", "ytd", "max"}
            eff == IF "period" \in DOMAIN args /\ args["period"] \in valid
                   THEN args["period"] ELSE "1y"
            itv == IF "interval" \in DOMAIN args THEN args["interval"] ELSE "1d"
        IN  /\ Len(calls) = 1
            /\ calls[1].fn = "history"
            /\ calls[1].period = eff
            /\ calls[1].interval = itv
            /\ response.status = (IF hist.raises THEN 500
                                  ELSE IF hist.rows = <<>> THEN 404 ELSE 200)
            /\ response.status = 200 =>
                  response.body.period = eff /\ response.body.interval = itv

C5_Witness ==
    /\ Responded("chart")
    /\ "period" \in DOMAIN args
    /\ args["period"] = "3w"
    /\ "interval" \in DOMAIN args
    /\ args["interval"] = "fortnight"
    /\ response.status = 200
    /\ response.body.period = "1y"
    /\ calls[1].period = "1y"

\* C6: search_stocks on a candidate longer than 5 characters returns no suggestion
\* and makes no provider call at any point of the request; on a candidate of at most
\* 5 characters it makes the metadata fetch for the uppercased candidate.
C6_LongCandidateIsNeverFetched ==
    route = "search" =>
        /\ pc = "received" => calls = <<>>
        /\ (pc = "responded" /\ Len(symbol) > 5) =>
              calls = <<>> /\ response.body.suggestions = <<>>
        /\ (pc = "responded" /\ Len(symbol) <= 5) =>
              calls = <<Call("info", Upper(symbol), "", "")>>

C6_Witness ==
    /\ Responded("search")
    /\ Len(symbol) = 6
    /\ InfoOk(info)
    /\ info.meta["longName"] = Val(<<"I", "n", "c">>)
    /\ response.body.suggestions = <<>>
    /\ calls = <<>>

\* C7: search_stocks always answers 200 with zero or one suggestion; there is one,
\* carrying the uppercased candidate as symbol, exactly when the candidate has at most
\* 5 characters, the fetch did not raise and longName is a non-empty string.
C7_SearchNeverFails ==
    Responded("search") =>
        LET found == response.body.suggestions
        IN  /\ response.status = 200
            /\ Len(found) <= 1
            /\ Len(found) = 1 <=>
                  /\ Len(symbol) <= 5
                  /\ InfoOk(info)
                  /\ info.meta["longName"].st = "val"
                  /\ info.meta["longName"].v # <<>>
            /\ Len(found) = 1 =>
                  /\ Len(found[1].symbol) = Len(symbol)
                  /\ \A i \in 1..Len(symbol) :
                        found[1].symbol[i] = (IF symbol[i] = "a" THEN "A" ELSE symbol[i])

C7_Witness ==
    /\ Responded("search")
    /\ symbol = <<"a", "B", "a", "a", "B">>
    /\ InfoOk(info)
    /\ info.meta["longName"] = Val(<<"I", "n", "c">>)
    /\ Len(response.body.suggestions) = 1
    /\ response.body.suggestions[1].symbol = <<"A", "B", "A", "A", "B">>

\* C8: on a non-empty history get_stock_chart returns one bar per row, the i-th bar
\* built from the i-th row, and count is the number of bars.
C8_BarsFollowRows ==
    (Responded("chart") /\ FrameOk(hist)) =>
        /\ response.status = 200
        /\ Len(response.body.data) = Len(hist.rows)
        /\ response.body.count = Len(response.body.data)
        /\ \A i \in 1..Len(hist.rows) :
              LET bar == response.body.data[i]
                  row == hist.rows[i]
              IN  /\ bar.date = row.date
                  /\ bar.timestamp * 10 <= row.instant
                  /\ row.instant < (bar.timestamp + 1) * 10
                  /\ bar.volume = row.Volume
                  /\ RoundingOf(bar.open, row.Open, 1)
                  /\ RoundingOf(bar.high, row.High, 1)
                  /\ RoundingOf(bar.low, row.Low, 1)
                  /\ RoundingOf(bar.close, row.Close, 1)

C8_Witness ==
    /\ Responded("chart")
    /\ hist.rows = <<RowB, RowA, RowA>>
    /\ response.status = 200
    /\ response.body.count = 3
    /\ response.body.data[1].close = 0
    /\ response.body.data[3].close = 1000

\* C9: in every successful snapshot of get_stock_data every field is present and not
\* null, and a metadata field the provider did not supply carries its stated default.
C9_FieldsPresentNonNullWithDefaults ==
    (Responded("stock") /\ response.status = 200) =>
        LET b == response.body
            Default(field, key, d) == info.meta[key].st = "absent" => b[field] = Val(d)
        IN  /\ DOMAIN b = StockFields
            /\ \A f \in StockFields : b[f].st = "val"
            /\ Default("name", "longName", Upper(symbol))
            /\ Default("volume", "volume", 0)
            /\ Default("market_cap", "marketCap", 0)
            /\ Default("pe_ratio", "trailingPE", 0)
            /\ Default("high_52w", "fiftyTwoWeekHigh", 0)
            /\ Default("low_52w", "fiftyTwoWeekLow", 0)
            /\ Default("dividend_yield", "dividendYield", 0)
            /\ Default("currency", "currency", "USD")
            /\ Default("exchange", "exchange", "UNKNOWN")
            /\ Default("market_state", "marketState", "CLOSED")

\* C10: when a fetch or a later computation raises in get_stock_data or
\* get_stock_chart the response is a 500 whose body is the generic message for the
\* requested symbol; the same request with any other exception text gets the same
\* response, and the exception text is in the log entry.
C10_FailureResponseHidesTheException ==
    /\ (Responded("stock")
          /\ (info.raises \/ hist.raises \/ (FrameOk(hist)
                                              /\ info.meta["previousClose"].st = "null"))) =>
          /\ response = [status |-> 500,
                         body |-> [error |-> <<"Failed to fetch data for ">> \o symbol]]
          /\ Len(log) = 1
          /\ info.raises => log[1].detail = info.exc
          /\ \A e1 \in ExcTexts, e2 \in ExcTexts :
                StockDataRun(symbol, [info EXCEPT !.exc = e1],
                             [hist EXCEPT !.exc = e2], now).response = response
    /\ (Responded("chart") /\ hist.raises) =>
          /\ response = [status |-> 500,
                         body |-> [error |-> <<"Failed to fetch chart data for ">> \o symbol]]
          /\ log = << [msg |-> <<"Error fetching chart data for ">> \o symbol,
                       detail |-> hist.exc] >>
          /\ \A e \in ExcTexts :
                ChartRun(symbol, args, [hist EXCEPT !.exc = e], now).response = response

C10_Witness ==
    /\ Responded("stock")
    /\ InfoOk(info)
    /\ hist.raises
    /\ hist.exc = "HTTPError 401 crumb=Zx81"
    /\ response.status = 500
    /\ log[1].detail = "HTTPError 401 crumb=Zx81"

====
